---- MODULE Spec2Model ----
(***************************************************************************)
(* Model of src/src/scheduler/task_scheduler.py (class TaskScheduler):     *)
(* the SQLite task store (tables tasks and task_logs), the APScheduler     *)
(* job store and its job-processing loop, the task-function registry and   *)
(* the executions of _execute_task in pool threads and caller threads.     *)
(*                                                                         *)
(* Every method opens its own sqlite3 connection.  A connection that has   *)
(* executed an UPDATE/INSERT holds the database write lock until it        *)
(* commits; until then its changes are invisible to other connections,     *)
(* and another connection that wants to write waits for the busy timeout   *)
(* and then raises OperationalError("database is locked").                 *)
(***************************************************************************)
EXTENDS Integers, Sequences, FiniteSets, TLC

\* ---------------------------------------------------------------- bounds
MaxTasks == 1
MaxRuns == 2
MaxTime == 1
\* rows of the table tasks when only the reads are explored
MaxRows == 2

\* ------------------------------------------------------ program constants
TASK_PRIORITIES == {"low", "normal", "high", "critical"}
TASK_STATUSES == {"pending", "running", "completed", "failed", "cancelled"}
DefaultRetryCount == 3
DefaultMaxRetries == 3
MaxInstances == 1
MisfireGraceTime == 1

\* SQL NULL / Python None for a timestamp column
NULL == -1

\* ------------------------------------------------------------ input sets
\* A string is kept as the sequence of its maximal runs of non-blank and
\* blank characters, e.g. "interval 1" is <<"interval", " ", "1">>.
None == <<"None">>
Blanks == {" ", "\t"}
\* the schedule of the tasks that are run
ScheduleInputs == { <<"interval", " ", "1">> }
\* the schedules given to add_task when only registration is explored
AllScheduleInputs ==
    ScheduleInputs \cup
    { None,
      <<>>,
      <<"0", " ", "23", " ", "*", " ", "*", " ", "*">>,
      <<"every", " ", "day">> }
\* schedule strings in neither of the two forms
BadScheduleInputs ==
    { <<"every", " ", "day">>,
      <<"interval", " ", "soon">>,
      <<"99", " ", "23", " ", "*", " ", "*", " ", "*">> }
\* schedules in one of the two forms: interval with a positive integer,
\* five cron fields
GrammarInputs ==
    { <<"interval", " ", "1">>,
      <<"interval", " ", "5">>,
      <<"0", " ", "23", " ", "*", " ", "*", " ", "*">>,
      <<"*", " ", "*", " ", "*", " ", "*", " ", "*">> }
\* schedules in neither form
OffGrammarInputs ==
    { <<"interval", " ", "0">>,
      <<"interval", " ", "-5">>,
      <<"interval", " ", "5", " ", "extra">>,
      <<"interval">>,
      <<"0", " ", "23", " ", "*", " ", "*">>,
      <<"0", " ", "23", " ", "*", " ", "*", " ", "*", " ", "*">> }
TaskTypes == {"nightly_extraction"}
PriorityInputs == {"critical", "urgent"}
\* an optional integer argument: <<>> when the caller omits it
RetryCountArgs == {<<>>, <<0>>}
MaxRetriesArgs == {<<>>}
AllMaxRetriesArgs == {<<>>, <<1>>, <<3>>}
\* the status argument of get_all_tasks: omitted, empty, a status, a word
StatusArgs == {<<>>, <<"">>, <<"done">>} \cup {<<st>> : st \in TASK_STATUSES}

Arg(a, default) == IF a = <<>> THEN default ELSE a[1]

\* ------------------------------------------------------- schedule parser
\* str.split(): the non-blank runs
Split(s) == SelectSeq(s, LAMBDA x : x \notin Blanks)

\* str.startswith("interval ")
StartsWithInterval(s) ==
    /\ Len(s) >= 2
    /\ s[1] = "interval"
    /\ s[2] = " "

\* the integer literals among the tokens, with their values
IntLiterals == {<<"0", 0>>, <<"1", 1>>, <<"2", 2>>, <<"5", 5>>,
                <<"23", 23>>, <<"99", 99>>, <<"-5", 0 - 5>>}

\* variant of ParseInt: a token that is no integer literal is read as 1
ParseIntLenient(tok) ==
    IF \E p \in IntLiterals : p[1] = tok
    THEN <<(CHOOSE p \in IntLiterals : p[1] = tok)[2]>>
    ELSE <<1>>

\* int(token): <<n>> when the token is an integer literal, <<>> on ValueError
ParseInt(tok) ==
    IF \E p \in IntLiterals : p[1] = tok
    THEN <<(CHOOSE p \in IntLiterals : p[1] = tok)[2]>>
    ELSE <<>>

\* CronTrigger accepts "*" or an integer inside the field's range
CronFieldOk(tok, lo, hi) ==
    \/ tok = "*"
    \/ /\ ParseInt(tok) # <<>>
       /\ ParseInt(tok)[1] >= lo
       /\ ParseInt(tok)[1] <= hi

CronOk(parts) ==
    /\ CronFieldOk(parts[1], 0, 59)
    /\ CronFieldOk(parts[2], 0, 23)
    /\ CronFieldOk(parts[3], 1, 31)
    /\ CronFieldOk(parts[4], 1, 12)
    /\ CronFieldOk(parts[5], 0, 6)

\* IntervalTrigger(seconds=n): a zero interval is replaced by one second
IntervalLength(n) == IF n = 0 THEN 1 ELSE n

NoTrigger == [kind |-> "none", seconds |-> 0, parts |-> <<>>]

\* _parse_schedule: the trigger, or NoTrigger for Python's None
ParseSchedule(schedule) ==
    LET parts == Split(schedule) IN
    IF Len(parts) = 5
    THEN IF CronOk(parts)
         THEN [kind |-> "cron", seconds |-> 0, parts |-> parts]
         ELSE NoTrigger
    ELSE IF StartsWithInterval(schedule)
         THEN IF Len(parts) >= 2 /\ ParseInt(parts[2]) # <<>>
              THEN [kind |-> "interval",
                    seconds |-> IntervalLength(ParseInt(parts[2])[1]),
                    parts |-> <<>>]
              ELSE NoTrigger
         ELSE NoTrigger

\* Python truthiness of the schedule argument
Truthy(schedule) == schedule # None /\ schedule # <<>>

\* ---------------------------------------------------------- trigger times
SecondsPerDay == 86400

\* first fire time of a cron trigger strictly after t ("*" fields: every
\* minute; integer minute and hour: that time of day)
CronNextFire(parts, t) ==
    LET m == IF parts[1] = "*" THEN 0 ELSE ParseInt(parts[1])[1]
        h == IF parts[2] = "*" THEN 0 ELSE ParseInt(parts[2])[1]
        period == IF parts[2] = "*"
                  THEN (IF parts[1] = "*" THEN 60 ELSE 3600)
                  ELSE SecondsPerDay
        offset == (h * 3600 + m * 60) % period
        base == t - (t % period) + offset
    IN IF base > t THEN base ELSE base + period

\* IntervalTrigger.get_next_fire_time(None, now) for a trigger whose
\* start_date is start
IntervalFirstFire(start, seconds, t) ==
    IF t <= start
    THEN start
    ELSE LET late == t - start
             steps == (late + seconds - 1) \div seconds
         IN start + steps * seconds

\* the last fire time of the trigger that is not after t, given that next
\* is a fire time and next <= t (coalesce keeps only this run time)
LastDue(job, t) ==
    IF job.trigger.kind = "interval"
    THEN job.next_run_time
            + ((t - job.next_run_time) \div job.trigger.seconds)
                * job.trigger.seconds
    ELSE job.next_run_time

\* variant of NextFireAfter: an interval trigger skips a fire time
NextFireAfterSkips(job, t) ==
    IF job.trigger.kind = "interval"
    THEN LastDue(job, t) + 2 * job.trigger.seconds
    ELSE CronNextFire(job.trigger.parts, t)

\* get_next_fire_time(previous_fire_time, now), previous = LastDue
NextFireAfter(job, t) ==
    IF job.trigger.kind = "interval"
    THEN LastDue(job, t) + job.trigger.seconds
    ELSE CronNextFire(job.trigger.parts, t)

\* the next_run_time a job gets when it is really added to the job store
FirstFire(trigger, start, t) ==
    IF trigger.kind = "interval"
    THEN IntervalFirstFire(start, trigger.seconds, t)
    ELSE CronNextFire(trigger.parts, t)

\* ------------------------------------------------------------------ state
VARIABLES
    tasks,          \* committed rows of table tasks, tasks[id]
    task_logs,      \* committed rows of table task_logs, in insertion order
    dbtxn,          \* the open write transaction: <<>> or its task row
    runs,           \* the calls of _execute_task that have not returned
    jobs,           \* APScheduler job store: the set of jobs
    task_functions, \* registered task types
    state,          \* scheduler state: "stopped", "running", "shutdown"
    now,            \* wall clock, seconds
    ret,            \* the last call and its result
    hist            \* per task: how it was added, cancelled and run

vars == <<tasks, task_logs, dbtxn, runs, jobs, task_functions, state, now,
          ret, hist>>

NoTxn == <<>>
Locked == dbtxn # NoTxn

TaskIds == 1..Len(tasks)
Exists(id) == id \in TaskIds

\* the calls of _execute_task for a task that have not returned
RunsOf(id) == {r \in 1..Len(runs) : runs[r].task_id = id}
\* a sequence without its r-th element
Remove(seq, r) == SubSeq(seq, 1, r - 1) \o SubSeq(seq, r + 1, Len(seq))
\* calls of _execute_task so far, over all tasks
Attempts == LET Sum[k \in 0..Len(hist)] ==
                    IF k = 0 THEN 0 ELSE Sum[k - 1] + hist[k].attempts
            IN Sum[Len(hist)]
LogsOf(id) == {k \in 1..Len(task_logs) : task_logs[k].task_id = id}

Event(op, id, arg, result) ==
    [op |-> op, id |-> id, arg |-> arg, result |-> result]

\* steps that are not a call of the API leave no result
NoEvent == Event("", 0, "", "")

Init ==
    /\ tasks = <<>>
    /\ task_logs = <<>>
    /\ dbtxn = NoTxn
    /\ runs = <<>>
    /\ jobs = {}
    /\ task_functions = {}
    /\ state = "stopped"
    /\ now = 0
    /\ ret = NoEvent
    /\ hist = <<>>

\* a call of _parse_schedule
ParseScheduleCall(schedule) ==
    /\ ret' = [op |-> "_parse_schedule", id |-> 0, arg |-> schedule,
               result |-> ParseSchedule(schedule)]
    /\ UNCHANGED <<tasks, task_logs, dbtxn, runs, jobs, task_functions,
                   state, now, hist>>

\* -------------------------------------------------------------- registry
\* register_task_function
RegisterTaskFunction(task_type) ==
    /\ task_functions' = task_functions \cup {task_type}
    /\ ret' = NoEvent
    /\ UNCHANGED <<tasks, task_logs, dbtxn, runs, jobs, state, now, hist>>

\* ----------------------------------------------------------------- jobs
HasJob(id) == \E j \in jobs : j.id = id
JobOf(id) == CHOOSE j \in jobs : j.id = id

\* variant of RemoveJob: the job is left in the job store
RemoveJobKeeps(J, id) == J

\* scheduler.remove_job (JobLookupError is swallowed by cancel_task)
RemoveJob(J, id) == {j \in J : j.id # id}

\* scheduler.add_job: a job added to a scheduler that is not running is
\* kept pending, without next_run_time, until start()
NewJob(id, trigger, t) ==
    LET start == IF trigger.kind = "interval" THEN t + trigger.seconds
                 ELSE NULL
    IN [id |-> id, trigger |-> trigger, start_date |-> start,
        next_run_time |-> IF state = "running"
                          THEN FirstFire(trigger, start, t)
                          ELSE NULL]

\* _schedule_task: the job store after the call
ScheduleTask(id, task_type, schedule) ==
    IF task_type \notin task_functions
    THEN jobs
    ELSE IF ParseSchedule(schedule) = NoTrigger
         THEN jobs
         ELSE jobs \cup {NewJob(id, ParseSchedule(schedule), now)}

\* ------------------------------------------------------------- add_task
\* variant of ValidPriority: the priority is not validated
ValidPriorityAny(priority) == TRUE

\* line 127
ValidPriority(priority) == priority \in TASK_PRIORITIES

\* variant of ShouldSchedule: manual_trigger is ignored
ShouldScheduleIgnoresManual(schedule, manual_trigger) == Truthy(schedule)

\* line 148: if schedule and not manual_trigger
ShouldSchedule(schedule, manual_trigger) ==
    Truthy(schedule) /\ ~manual_trigger

NewRow(task_type, priority, schedule, retry_count, max_retries, t) ==
    [task_type |-> task_type, priority |-> priority, schedule |-> schedule,
     retry_count |-> retry_count, max_retries |-> max_retries,
     status |-> "pending", last_run_at |-> NULL, next_run_at |-> NULL,
     updated_at |-> t]

AddTask(task_type, priority, schedule, rc, mr, manual_trigger) ==
    LET id == Len(tasks) + 1 IN
    /\ Len(tasks) < MaxTasks
    /\ IF ~ValidPriority(priority)
       THEN /\ ret' = Event("add_task", 0, priority, "ValueError")
            /\ UNCHANGED <<tasks, task_logs, dbtxn, runs, jobs,
                           task_functions, state, now, hist>>
       ELSE IF Locked
       THEN /\ ret' = Event("add_task", 0, priority, "OperationalError")
            /\ UNCHANGED <<tasks, task_logs, dbtxn, runs, jobs,
                           task_functions, state, now, hist>>
       ELSE /\ tasks' = Append(tasks,
                    NewRow(task_type, priority, schedule,
                           Arg(rc, DefaultRetryCount),
                           Arg(mr, DefaultMaxRetries), now))
            /\ jobs' = IF ShouldSchedule(schedule, manual_trigger)
                       THEN ScheduleTask(id, task_type, schedule)
                       ELSE jobs
            /\ hist' = Append(hist, [schedule |-> schedule,
                                     manual_trigger |-> manual_trigger,
                                     rc_given |-> rc # <<>>,
                                     cancel_runs |-> NULL,
                                     cancel_logs |-> NULL,
                                     attempts |-> 0])
            /\ ret' = Event("add_task", id, priority, "ok")
            /\ UNCHANGED <<task_logs, dbtxn, runs, task_functions, state,
                           now>>

\* ------------------------------------------------------ start / shutdown
\* scheduler.start(): pending jobs get their first next_run_time
Start ==
    /\ state = "stopped"
    /\ state' = "running"
    /\ jobs' = {[j EXCEPT !.next_run_time =
                    FirstFire(j.trigger, j.start_date, now)] : j \in jobs}
    /\ ret' = NoEvent
    /\ UNCHANGED <<tasks, task_logs, dbtxn, runs, task_functions, now, hist>>

\* scheduler.shutdown(): with wait=True the call returns when the pool has
\* finished the jobs it was running; the memory job store drops its jobs
Shutdown ==
    /\ state = "running"
    /\ \A r \in 1..Len(runs) : runs[r].src # "sched"
    /\ state' = "shutdown"
    /\ jobs' = {}
    /\ ret' = NoEvent
    /\ UNCHANGED <<tasks, task_logs, dbtxn, runs, task_functions, now, hist>>

\* ---------------------------------------------------------------- clock
Tick ==
    /\ now < MaxTime
    /\ now' = now + 1
    /\ ret' = NoEvent
    /\ UNCHANGED <<tasks, task_logs, dbtxn, runs, jobs, task_functions,
                   state, hist>>

\* -------------------------------------------------------- _execute_task
\* entry of _execute_task (lines 221-224): the call reads the clock
NewRun(id, src, t) ==
    [task_id |-> id, task_type |-> tasks[id].task_type, src |-> src,
     pc |-> "update", started_at |-> t,
     retry_count |-> NULL, max_retries |-> NULL, called |-> FALSE]

\* lines 225-237: UPDATE ... status='running' opens the write transaction,
\* which stays open while the body runs; the SELECT reads the retry fields.
\* While another connection holds the write lock longer than the busy
\* timeout, the UPDATE raises OperationalError, which leaves _execute_task.
ExecUpdate(r) ==
    LET id == runs[r].task_id IN
    /\ runs[r].pc = "update"
    /\ IF Locked
       THEN /\ runs' = Remove(runs, r)
            /\ ret' = IF runs[r].src = "manual"
                      THEN Event("trigger_task", id, "", "OperationalError")
                      ELSE NoEvent
            /\ UNCHANGED dbtxn
       ELSE /\ dbtxn' = <<[tasks[id] EXCEPT
                             !.status = "running",
                             !.last_run_at = runs[r].started_at,
                             !.updated_at = runs[r].started_at]>>
            /\ runs' = [runs EXCEPT
                           ![r].pc = "body",
                           ![r].retry_count = tasks[id].retry_count,
                           ![r].max_retries = tasks[id].max_retries,
                           ![r].called =
                               runs[r].task_type \in task_functions]
            /\ ret' = NoEvent
    /\ UNCHANGED <<tasks, task_logs, jobs, task_functions, state, now, hist>>

\* variant of ShouldRetry: a retry is also granted at retry_count = max_retries
ShouldRetryInclusive(success, retry_count, max_retries) ==
    ~success /\ retry_count <= max_retries

\* line 258: the retry rule
ShouldRetry(success, retry_count, max_retries) ==
    ~success /\ retry_count < max_retries

\* variant of FinalStatus: a failed attempt leaves the running mark
FinalStatusStaysRunning(success, retry_count, max_retries) ==
    IF success THEN "completed" ELSE "running"

\* lines 256-260: the status written to the task row
FinalStatus(success, retry_count, max_retries) ==
    IF ShouldRetry(success, retry_count, max_retries) THEN "pending"
    ELSE IF success THEN "completed" ELSE "failed"

\* variant of OutcomeRetryCount: a success starts the count again
OutcomeRetryCountResets(success, retry_count, max_retries, kept) ==
    IF ShouldRetry(success, retry_count, max_retries) THEN retry_count + 1
    ELSE IF success THEN 0 ELSE kept

\* lines 258-272: retry_count is written by the retry branch only; the
\* other branch keeps the value of the row
OutcomeRetryCount(success, retry_count, max_retries, kept) ==
    IF ShouldRetry(success, retry_count, max_retries) THEN retry_count + 1
    ELSE kept

\* variant of LogRow: a missing registration is recorded like a success
LogRowUnregisteredOk(r, success, t) ==
    [task_id |-> runs[r].task_id,
     status |-> IF success \/ ~runs[r].called THEN "completed" ELSE "failed",
     started_at |-> runs[r].started_at,
     completed_at |-> t,
     error_message |-> IF success \/ ~runs[r].called THEN "None" ELSE "error"]

\* lines 274-286: the task_logs row
LogRow(r, success, t) ==
    [task_id |-> runs[r].task_id,
     status |-> IF success THEN "completed" ELSE "failed",
     started_at |-> runs[r].started_at,
     completed_at |-> t,
     error_message |-> IF success THEN "None"
                       ELSE IF runs[r].called THEN "error"
                       ELSE "No function registered"]

\* variant of AppendLog: the record replaces the last one
AppendLogOverwrites(logs, row) ==
    IF logs = <<>> THEN <<row>> ELSE [logs EXCEPT ![Len(logs)] = row]

\* lines 274-286: INSERT INTO task_logs
AppendLog(logs, row) == Append(logs, row)

\* variant of TriggerReturn: an exception of the body leaves trigger_task
TriggerReturnRaises(success) == IF success THEN "True" ELSE "Exception"

\* lines 251-253 and 316-317: the exception of a body is caught inside
\* _execute_task, so trigger_task returns True after any outcome
TriggerReturn(success) == "True"

\* lines 242-289: the body returns (success) or raises, or no function is
\* registered; the row and the log record are written and committed
ExecFinish(r, success) ==
    LET id == runs[r].task_id
        rc == runs[r].retry_count
        mr == runs[r].max_retries
        row == dbtxn[1]
    IN
    /\ runs[r].pc = "body"
    /\ success => runs[r].called
    /\ tasks' = [tasks EXCEPT ![id] =
                    [row EXCEPT
                       !.status = FinalStatus(success, rc, mr),
                       !.retry_count =
                           OutcomeRetryCount(success, rc, mr,
                                             row.retry_count),
                       !.updated_at = now]]
    /\ task_logs' = AppendLog(task_logs, LogRow(r, success, now))
    /\ dbtxn' = NoTxn
    /\ runs' = Remove(runs, r)
    /\ ret' = IF runs[r].src = "manual"
              THEN Event("trigger_task", id, "", TriggerReturn(success))
              ELSE NoEvent
    /\ UNCHANGED <<jobs, task_functions, state, now, hist>>

\* --------------------------------------------------- scheduler main loop
\* running instances of the job of a task (executor._instances)
Instances(id) ==
    Cardinality({r \in RunsOf(id) : runs[r].src = "sched"})

\* variant of SchedulerRuns: the main loop runs in every state
SchedulerRunsAlways(st) == TRUE

\* the main loop of the scheduler runs between start() and shutdown()
SchedulerRuns(st) == st = "running"

\* _process_jobs for one due job, with coalesce=True and max_instances=1
ProcessJob(id) ==
    LET j == JobOf(id) IN
    /\ SchedulerRuns(state)
    /\ HasJob(id)
    /\ j.next_run_time <= now
    /\ jobs' = (jobs \ {j}) \cup
                 {[j EXCEPT !.next_run_time = NextFireAfter(j, now)]}
    /\ IF Instances(id) >= MaxInstances
       THEN /\ ret' = NoEvent
            /\ UNCHANGED <<runs, hist>>
       ELSE IF now - LastDue(j, now) > MisfireGraceTime
       THEN /\ ret' = NoEvent
            /\ UNCHANGED <<runs, hist>>
       ELSE /\ Attempts < MaxRuns
            /\ runs' = Append(runs, NewRun(id, "sched", now))
            /\ hist' = [hist EXCEPT ![id].attempts = @ + 1]
            /\ ret' = NoEvent
    /\ UNCHANGED <<tasks, task_logs, dbtxn, task_functions, state, now>>

\* ---------------------------------------------------------- trigger_task
\* variant of NotTriggerable: a completed task is triggered again
NotTriggerableOnlyCancelled(status) == status \in {"cancelled"}

\* variant of NotTriggerable: a failed task is refused as well
NotTriggerableAllTerminal(status) ==
    status \in {"cancelled", "completed", "failed"}

\* line 312
NotTriggerable(status) == status \in {"cancelled", "completed"}

TriggerTask(id) ==
    IF ~Exists(id) \/ NotTriggerable(tasks[id].status)
    THEN /\ ret' = Event("trigger_task", id, "", "False")
         /\ UNCHANGED <<tasks, task_logs, dbtxn, runs, jobs, task_functions,
                        state, now, hist>>
    ELSE /\ Attempts < MaxRuns
         /\ runs' = Append(runs, NewRun(id, "manual", now))
         /\ hist' = [hist EXCEPT ![id].attempts = @ + 1]
         /\ ret' = NoEvent
         /\ UNCHANGED <<tasks, task_logs, dbtxn, jobs, task_functions,
                        state, now>>

\* ----------------------------------------------------------- cancel_task
\* a task that is pending, scheduled and has no run inside _execute_task
Idle(id) ==
    /\ tasks[id].status = "pending"
    /\ HasJob(id)
    /\ RunsOf(id) = {}

CancelTask(id) ==
    /\ jobs' = RemoveJob(jobs, id)
    /\ IF Locked
       THEN /\ ret' = Event("cancel_task", id, "", "OperationalError")
            /\ UNCHANGED <<tasks, hist>>
       ELSE /\ tasks' = IF Exists(id)
                        THEN [tasks EXCEPT ![id].status = "cancelled",
                                           ![id].updated_at = now]
                        ELSE tasks
            /\ hist' = IF Exists(id) /\ Idle(id)
                       THEN [hist EXCEPT
                                ![id].cancel_runs = hist[id].attempts,
                                ![id].cancel_logs =
                                    Cardinality(LogsOf(id))]
                       ELSE hist
            /\ ret' = Event("cancel_task", id, "", "True")
    /\ UNCHANGED <<task_logs, dbtxn, runs, task_functions, state, now>>

\* ------------------------------------------------------------------ reads
\* get_task_status: the committed row, or <<>> for None
GetTaskStatus(id) == IF Exists(id) THEN <<tasks[id]>> ELSE <<>>

\* ORDER BY id: the ids of a set of rows, smallest first
RECURSIVE OrderById(_)
OrderById(ids) ==
    IF ids = {} THEN <<>>
    ELSE LET least == CHOOSE i \in ids : \A k \in ids : i <= k
         IN <<least>> \o OrderById(ids \ {least})

\* variant of GetAllTasks: the status argument is ignored
GetAllTasksUnfiltered(status) ==
    LET ids == OrderById(TaskIds)
    IN [k \in 1..Len(ids) |-> [id |-> ids[k], row |-> tasks[ids[k]]]]

\* get_all_tasks (lines 378-389): the committed rows with their ids; the
\* WHERE clause is used when the argument is truthy
GetAllTasks(status) ==
    LET filtered == status # <<>> /\ status[1] # ""
        ids == OrderById({id \in TaskIds :
                            filtered => tasks[id].status = status[1]})
    IN [k \in 1..Len(ids) |-> [id |-> ids[k], row |-> tasks[ids[k]]]]

\* a call of get_task_status
GetTaskStatusCall(id) ==
    /\ ret' = Event("get_task_status", id, "", GetTaskStatus(id))
    /\ UNCHANGED <<tasks, task_logs, dbtxn, runs, jobs, task_functions,
                   state, now, hist>>

\* a call of get_all_tasks
GetAllTasksCall(status) ==
    /\ ret' = Event("get_all_tasks", 0, status, GetAllTasks(status))
    /\ UNCHANGED <<tasks, task_logs, dbtxn, runs, jobs, task_functions,
                   state, now, hist>>

\* ---------------------------------------------------------- specification
Next ==
    \/ \E t \in TaskTypes : RegisterTaskFunction(t)
    \/ \E t \in TaskTypes, p \in PriorityInputs, s \in ScheduleInputs,
          rc \in RetryCountArgs, mr \in MaxRetriesArgs, m \in BOOLEAN :
            AddTask(t, p, s, rc, mr, m)
    \/ Start
    \/ Shutdown
    \/ Tick
    \/ \E r \in 1..Len(runs) : ExecUpdate(r)
    \/ \E r \in 1..Len(runs), success \in BOOLEAN : ExecFinish(r, success)
    \/ \E id \in TaskIds : ProcessJob(id)
    \/ \E id \in 1..(Len(tasks) + 1) : TriggerTask(id)
    \/ \E id \in 1..(Len(tasks) + 1) : CancelTask(id)

Spec == Init /\ [][Next]_vars

\* registration only: every form of the arguments of add_task, no runs
NextAdd ==
    \/ \E t \in TaskTypes : RegisterTaskFunction(t)
    \/ \E t \in TaskTypes, p \in PriorityInputs, s \in AllScheduleInputs,
          rc \in RetryCountArgs, mr \in AllMaxRetriesArgs, m \in BOOLEAN :
            AddTask(t, p, s, rc, mr, m)
    \/ Start
    \/ Shutdown
    \/ Tick
    \/ \E id \in 1..(Len(tasks) + 1) : CancelTask(id)

SpecAdd == Init /\ [][NextAdd]_vars

\* a scheduler that is never started (as in main.py): the caller adds,
\* triggers and cancels tasks; jobs stay pending in the job store
NextManual ==
    \/ \E t \in TaskTypes : RegisterTaskFunction(t)
    \/ \E t \in TaskTypes, p \in PriorityInputs, s \in ScheduleInputs,
          rc \in RetryCountArgs, mr \in MaxRetriesArgs, m \in BOOLEAN :
            AddTask(t, p, s, rc, mr, m)
    \/ \E r \in 1..Len(runs) : ExecUpdate(r)
    \/ \E r \in 1..Len(runs), success \in BOOLEAN : ExecFinish(r, success)
    \/ \E id \in 1..(Len(tasks) + 1) : TriggerTask(id)
    \/ \E id \in 1..(Len(tasks) + 1) : CancelTask(id)

SpecManual == Init /\ [][NextManual]_vars

\* a started scheduler whose tasks are executed by their jobs only: the
\* caller adds and cancels tasks and never calls trigger_task
NextSched ==
    \/ \E t \in TaskTypes : RegisterTaskFunction(t)
    \/ \E t \in TaskTypes, p \in PriorityInputs, s \in ScheduleInputs,
          rc \in RetryCountArgs, mr \in MaxRetriesArgs, m \in BOOLEAN :
            AddTask(t, p, s, rc, mr, m)
    \/ Start
    \/ Tick
    \/ \E r \in 1..Len(runs) : ExecUpdate(r)
    \/ \E r \in 1..Len(runs), success \in BOOLEAN : ExecFinish(r, success)
    \/ \E id \in TaskIds : ProcessJob(id)
    \/ \E id \in 1..(Len(tasks) + 1) : CancelTask(id)

SpecSched == Init /\ [][NextSched]_vars

\* a started scheduler and a caller that adds tasks with well-formed and
\* malformed schedules and triggers those that have no job; a run ends
\* within the second in which it began
NextParse ==
    \/ \E t \in TaskTypes : RegisterTaskFunction(t)
    \/ \E t \in TaskTypes, p \in PriorityInputs,
          s \in ScheduleInputs \cup BadScheduleInputs,
          mr \in MaxRetriesArgs :
            AddTask(t, p, s, <<>>, mr, FALSE)
    \/ Start
    \/ runs = <<>> /\ Tick
    \/ \E r \in 1..Len(runs) : ExecUpdate(r)
    \/ \E r \in 1..Len(runs), success \in BOOLEAN : ExecFinish(r, success)
    \/ \E id \in TaskIds : ProcessJob(id)
    \/ \E id \in 1..(Len(tasks) + 1) : ~HasJob(id) /\ TriggerTask(id)

SpecParse == Init /\ [][NextParse]_vars

\* the reads on a table of up to MaxRows rows, each in one of the statuses
\* a committed row can have, while the caller cancels tasks
InitRead ==
    /\ \E n \in 0..MaxRows :
          /\ tasks \in [1..n -> {[NewRow("nightly_extraction", "critical",
                                          None, DefaultRetryCount,
                                          DefaultMaxRetries, 0)
                                     EXCEPT !.status = st] :
                                  st \in TASK_STATUSES \ {"running"}}]
          /\ hist = [id \in 1..n |-> [schedule |-> None,
                                       manual_trigger |-> FALSE,
                                       rc_given |-> FALSE,
                                       cancel_runs |-> NULL,
                                       cancel_logs |-> NULL, attempts |-> 0]]
    /\ task_logs = <<>>
    /\ dbtxn = NoTxn
    /\ runs = <<>>
    /\ jobs = {}
    /\ task_functions = {}
    /\ state = "stopped"
    /\ now = 0
    /\ ret = NoEvent

NextRead ==
    \/ \E id \in 1..(Len(tasks) + 1) : GetTaskStatusCall(id)
    \/ \E status \in StatusArgs : GetAllTasksCall(status)
    \/ \E id \in 1..(Len(tasks) + 1) : CancelTask(id)

SpecRead == InitRead /\ [][NextRead]_vars

\* every operation, called with valid arguments on existing tasks; a run
\* ends within the second in which it began
NextOps ==
    \/ \E t \in TaskTypes : RegisterTaskFunction(t)
    \/ \E t \in TaskTypes, p \in PriorityInputs \cap TASK_PRIORITIES,
          s \in ScheduleInputs, mr \in MaxRetriesArgs :
            AddTask(t, p, s, <<>>, mr, FALSE)
    \/ Start
    \/ Shutdown
    \/ runs = <<>> /\ Tick
    \/ \E r \in 1..Len(runs) : ExecUpdate(r)
    \/ \E r \in 1..Len(runs), success \in BOOLEAN : ExecFinish(r, success)
    \/ \E id \in TaskIds : ProcessJob(id)
    \/ \E id \in TaskIds : TriggerTask(id)
    \/ \E id \in TaskIds : CancelTask(id)

SpecOps == Init /\ [][NextOps]_vars

\* the executor pool: MaxRows tasks of a registered type were added with an
\* interval schedule to a scheduler that is then started
InitPool ==
    /\ state = "stopped"
    /\ now = 0
    /\ task_functions = TaskTypes
    /\ tasks = [id \in 1..MaxRows |->
                  NewRow("nightly_extraction", "critical",
                         <<"interval", " ", "1">>, DefaultRetryCount,
                         DefaultMaxRetries, 0)]
    /\ hist = [id \in 1..MaxRows |->
                 [schedule |-> <<"interval", " ", "1">>,
                  manual_trigger |-> FALSE, rc_given |-> FALSE,
                  cancel_runs |-> NULL, cancel_logs |-> NULL,
                  attempts |-> 0]]
    /\ jobs = {NewJob(id, ParseSchedule(<<"interval", " ", "1">>), 0) :
                 id \in 1..MaxRows}
    /\ task_logs = <<>>
    /\ dbtxn = NoTxn
    /\ runs = <<>>
    /\ ret = NoEvent

NextPool ==
    \/ Start
    \/ Tick
    \/ \E r \in 1..Len(runs) : ExecUpdate(r)
    \/ \E r \in 1..Len(runs), success \in BOOLEAN : ExecFinish(r, success)
    \/ \E id \in TaskIds : ProcessJob(id)
    \/ \E id \in TaskIds : CancelTask(id)

SpecPool == InitPool /\ [][NextPool]_vars

\* a started scheduler and a caller that adds tasks with and without a
\* schedule, in manual-only mode or not, and triggers those that have no
\* job; a run ends within the second in which it began
NextManualOnly ==
    \/ \E t \in TaskTypes : RegisterTaskFunction(t)
    \/ \E t \in TaskTypes, p \in PriorityInputs \cap TASK_PRIORITIES,
          s \in ScheduleInputs \cup {None},
          mr \in MaxRetriesArgs, m \in BOOLEAN :
            AddTask(t, p, s, <<>>, mr, m)
    \/ Start
    \/ runs = <<>> /\ Tick
    \/ \E r \in 1..Len(runs) : ExecUpdate(r)
    \/ \E r \in 1..Len(runs), success \in BOOLEAN : ExecFinish(r, success)
    \/ \E id \in TaskIds : ProcessJob(id)
    \/ \E id \in TaskIds : ~HasJob(id) /\ TriggerTask(id)

SpecManualOnly == Init /\ [][NextManualOnly]_vars

\* the parser on strings inside and outside the schedule grammar, called
\* directly and through add_task
NextGrammar ==
    \/ \E t \in TaskTypes : RegisterTaskFunction(t)
    \/ \E s \in GrammarInputs \cup OffGrammarInputs : ParseScheduleCall(s)
    \/ \E t \in TaskTypes, p \in PriorityInputs,
          s \in GrammarInputs \cup OffGrammarInputs,
          mr \in MaxRetriesArgs, m \in BOOLEAN :
            AddTask(t, p, s, <<>>, mr, m)
    \/ \E id \in 1..(Len(tasks) + 1) : CancelTask(id)

SpecGrammar == Init /\ [][NextGrammar]_vars

\* a caller that adds manual tasks and triggers and cancels them, with the
\* threads of _execute_task making progress: a call executes its next
\* statement, and a body returns or raises
NextLive ==
    \/ \E t \in TaskTypes : RegisterTaskFunction(t)
    \/ \E t \in TaskTypes, rc \in RetryCountArgs :
            AddTask(t, "critical", None, rc, <<>>, TRUE)
    \/ \E r \in 1..Len(runs) : ExecUpdate(r)
    \/ \E r \in 1..Len(runs), success \in BOOLEAN : ExecFinish(r, success)
    \/ \E id \in TaskIds : TriggerTask(id)
    \/ \E id \in TaskIds : CancelTask(id)

SpecLive ==
    /\ Init
    /\ [][NextLive]_vars
    /\ WF_vars(\E r \in 1..Len(runs) : ExecUpdate(r))
    /\ WF_vars(\E r \in 1..Len(runs), success \in BOOLEAN :
                   ExecFinish(r, success))

\* ================================================================= claims
Terminal == {"completed", "failed", "cancelled"}

\* everything but the clock and the result of the last call
store == <<tasks, task_logs, dbtxn, runs, jobs, task_functions, state, hist>>

\* this step is a call trigger_task(id) that entered _execute_task
ManualEntered(id) ==
    /\ Len(runs') = Len(runs) + 1
    /\ runs'[Len(runs')].src = "manual"
    /\ runs'[Len(runs')].task_id = id

\* this step is a call trigger_task(id) that returned False
TriggerRefused(id) ==
    /\ ret'.op = "trigger_task"
    /\ ret'.id = id
    /\ ret'.result = "False"

\* C1: every task row satisfies 0 <= retry_count <= max_retries.
RetryCountWithinBounds ==
    \A id \in TaskIds :
        /\ 0 <= tasks[id].retry_count
        /\ tasks[id].retry_count <= tasks[id].max_retries

\* C2: a step that is not a call of the caller on a task (cancel_task, or
\* the return of trigger_task) leaves a terminal status of that task as
\* it is.
TerminalStatusIsStable ==
    [][\A id \in TaskIds :
          (/\ tasks[id].status \in Terminal
           /\ ~(ret'.op \in {"cancel_task", "trigger_task"} /\ ret'.id = id))
          => tasks'[id].status = tasks[id].status]_vars

\* C3: no two execution records of one task have overlapping
\* [started_at, completed_at] intervals.
NoOverlappingAttempts ==
    \A a \in 1..Len(task_logs), b \in 1..Len(task_logs) :
        (a < b /\ task_logs[a].task_id = task_logs[b].task_id)
        => ~(/\ task_logs[b].started_at < task_logs[a].completed_at
             /\ task_logs[a].started_at < task_logs[b].completed_at)

\* C4: a task added with max_retries=3 and no retry_count, all of whose
\* runs failed, is pending with retry_count = n after n = 1, 2, 3 runs and
\* failed after the fourth.
RetryLadder ==
    \A id \in TaskIds :
        LET n == Cardinality(LogsOf(id)) IN
        (/\ ~hist[id].rc_given
         /\ tasks[id].max_retries = 3
         /\ tasks[id].status # "cancelled"
         /\ RunsOf(id) = {}
         /\ n = hist[id].attempts
         /\ \A k \in LogsOf(id) : task_logs[k].status = "failed")
        => /\ n \in 1..3 => /\ tasks[id].status = "pending"
                            /\ tasks[id].retry_count = n
           /\ n = 4 => tasks[id].status = "failed"

\* C5: right after add_task without retry_count returned id,
\* get_task_status(id) reports pending, the given schedule and
\* retry_count = 0.
AddTaskInitialRow ==
    (ret.op = "add_task" /\ ret.result = "ok" /\ ~hist[ret.id].rc_given)
    => /\ GetTaskStatus(ret.id) # <<>>
       /\ GetTaskStatus(ret.id)[1].status = "pending"
       /\ GetTaskStatus(ret.id)[1].schedule = hist[ret.id].schedule
       /\ GetTaskStatus(ret.id)[1].retry_count = 0

\* C6: trigger_task on a completed or cancelled task never enters
\* _execute_task (no body, no record), and when it returns False nothing
\* of the store has changed.
TriggerOnCompletedOrCancelled ==
    [][\A id \in TaskIds :
          tasks[id].status \in {"completed", "cancelled"}
          => /\ ~ManualEntered(id)
             /\ TriggerRefused(id) => UNCHANGED store]_vars

TriggerOnCompletedOrCancelledWitness ==
    /\ ret.op = "trigger_task"
    /\ ret.result = "False"
    /\ Exists(ret.id)
    /\ tasks[ret.id].status = "completed"
    /\ HasJob(ret.id)

\* C7: a task cancelled while pending, scheduled and not running stays
\* cancelled, and no execution of it starts and no record of it is
\* appended afterwards.
CancelledTaskNeverRuns ==
    \A id \in TaskIds :
        hist[id].cancel_runs # NULL
        => /\ tasks[id].status = "cancelled"
           /\ RunsOf(id) = {}
           /\ hist[id].attempts = hist[id].cancel_runs
           /\ Cardinality(LogsOf(id)) = hist[id].cancel_logs

\* a due instant of the interval schedule has passed since the cancel
CancelledTaskNeverRunsWitness ==
    \E id \in TaskIds :
        /\ hist[id].cancel_runs # NULL
        /\ state = "running"
        /\ now > tasks[id].updated_at

\* C8: add_task with a priority outside TASK_PRIORITIES raises ValueError
\* and leaves the store (rows, next id, jobs) as it was.
InvalidPriorityRejected ==
    [][(ret'.op = "add_task" /\ ret'.arg \notin TASK_PRIORITIES)
        => /\ ret'.result = "ValueError"
           /\ UNCHANGED store]_vars

InvalidPriorityRejectedWitness ==
    /\ ret.op = "add_task"
    /\ ret.result = "ValueError"
    /\ ret.arg \notin TASK_PRIORITIES

\* C9 as stated: trigger_task never enters _execute_task for an id that
\* does not exist or whose task is completed, failed or cancelled.
TriggerRefusedOnEveryTerminal ==
    [][\A id \in 1..(Len(tasks) + 1) :
          (~Exists(id) \/ tasks[id].status \in Terminal)
          => ~ManualEntered(id)]_vars

\* C9 amended: trigger_task returns False exactly for an id that does
\* not exist or whose task is completed or cancelled, and then changes
\* nothing; a failed task is not refused.
TriggerRefusedExactly ==
    [][\A id \in 1..(Len(tasks) + 1) :
          LET refusable ==
                ~Exists(id) \/ tasks[id].status \in {"completed", "cancelled"}
          IN /\ refusable => ~ManualEntered(id)
             /\ TriggerRefused(id) => (refusable /\ UNCHANGED store)]_vars

TriggerRefusedExactlyWitness ==
    /\ ret.op = "trigger_task"
    /\ ret.result = "False"
    /\ ~Exists(ret.id)
    /\ \E id \in TaskIds : tasks[id].status = "failed"

\* C10: once no call of _execute_task for a task is open, the task has
\* one execution record per call, each completed or failed.
OneRecordPerAttempt ==
    \A id \in TaskIds :
        /\ \A k \in LogsOf(id) :
              task_logs[k].status \in {"completed", "failed"}
        /\ RunsOf(id) = {} => Cardinality(LogsOf(id)) = hist[id].attempts

\* C11: a call cancel_task(id) made while a call of _execute_task for id
\* is open returns True and leaves that call running.
CancelInFlightSucceeds ==
    [][\A id \in TaskIds :
          (/\ RunsOf(id) # {}
           /\ ret'.op = "cancel_task"
           /\ ret'.id = id)
          => /\ ret'.result = "True"
             /\ runs' = runs]_vars

\* C12: add_task fails only on an invalid priority or a locked database,
\* never on its schedule; a task added with a malformed schedule is new and
\* pending, never has a job, is never run by the scheduler, and
\* trigger_task refuses it only once it is completed or cancelled.
BadScheduleSoftFails ==
    [][/\ (ret'.op = "add_task" /\ ret'.result # "ok")
          => (ret'.arg \notin TASK_PRIORITIES \/ Locked)
       /\ \A id \in 1..Len(tasks') :
             hist'[id].schedule \in BadScheduleInputs
             => /\ \A j \in jobs' : j.id # id
                /\ \A r \in 1..Len(runs') :
                      runs'[r].task_id = id => runs'[r].src = "manual"
                /\ id \notin TaskIds
                   => /\ ret'.op = "add_task"
                      /\ ret'.id = id
                      /\ ret'.result = "ok"
                      /\ tasks'[id].status = "pending"
                /\ (id \in TaskIds /\ TriggerRefused(id))
                   => tasks[id].status \in {"completed", "cancelled"}]_vars

\* a task with a malformed schedule was run by trigger_task on a started
\* scheduler after a second had passed
BadScheduleSoftFailsWitness ==
    \E id \in TaskIds :
        /\ hist[id].schedule \in BadScheduleInputs
        /\ state = "running"
        /\ now > tasks[id].last_run_at
        /\ \E k \in LogsOf(id) : task_logs[k].status = "completed"

\* C13: a run that reaches its body for a task type without a registered
\* function ends as a failed run: one record with status failed and the
\* "No function registered" message is appended, the row becomes pending
\* with retry_count + 1 when retry_count < max_retries and failed with
\* retry_count unchanged otherwise, and trigger_task returns True.
UnregisteredTypeIsFailedRun ==
    [][\A r \in 1..Len(runs) :
          (/\ runs[r].pc = "body"
           /\ runs[r].task_type \notin task_functions
           /\ dbtxn' = NoTxn)
          => LET id == runs[r].task_id
                 rec == task_logs'[Len(task_logs')]
             IN /\ Len(task_logs') = Len(task_logs) + 1
                /\ SubSeq(task_logs', 1, Len(task_logs)) = task_logs
                /\ rec.task_id = id
                /\ rec.status = "failed"
                /\ rec.error_message = "No function registered"
                /\ IF tasks[id].retry_count < tasks[id].max_retries
                   THEN /\ tasks'[id].status = "pending"
                        /\ tasks'[id].retry_count = tasks[id].retry_count + 1
                   ELSE /\ tasks'[id].status = "failed"
                        /\ tasks'[id].retry_count = tasks[id].retry_count
                /\ runs[r].src = "manual"
                   => /\ ret'.op = "trigger_task"
                      /\ ret'.id = id
                      /\ ret'.result = "True"]_vars

\* trigger_task returned True for a task of an unregistered type that is
\* pending again after its first failure
UnregisteredTypeIsFailedRunWitness ==
    /\ ret.op = "trigger_task"
    /\ ret.result = "True"
    /\ Exists(ret.id)
    /\ tasks[ret.id].task_type \notin task_functions
    /\ tasks[ret.id].status = "pending"
    /\ tasks[ret.id].retry_count = 1
    /\ \E k \in LogsOf(ret.id) :
          task_logs[k].error_message = "No function registered"

\* C14: add_task and cancel_task are not failed by a run in flight, and
\* trigger_task returns True before the run it started has ended (the run
\* is still open and its record is not yet written).
CallsDoNotWaitForBodies ==
    [][/\ (ret'.op \in {"add_task", "cancel_task"} /\ runs # <<>>)
          => ret'.result # "OperationalError"
       /\ (ret'.op = "trigger_task" /\ ret'.result = "True")
          => /\ Len(task_logs') = Len(task_logs)
             /\ \E r \in 1..Len(runs') :
                   /\ runs'[r].task_id = ret'.id
                   /\ runs'[r].src = "manual"]_vars

\* C15: when a run that reached its body ends, whatever the outcome,
\* trigger_task returns True (a scheduled run returns nothing to the API);
\* the step appends one record, whose error_message is set exactly when the
\* run failed, and besides that changes only the row of the task.
BodyFailureStaysInside ==
    [][\A r \in 1..Len(runs) :
          (runs[r].pc = "body" /\ dbtxn' = NoTxn)
          => LET id == runs[r].task_id
                 rec == task_logs'[Len(task_logs')]
             IN /\ ret' = IF runs[r].src = "manual"
                          THEN Event("trigger_task", id, "", "True")
                          ELSE NoEvent
                /\ Len(task_logs') = Len(task_logs) + 1
                /\ rec.task_id = id
                /\ (rec.status = "failed") = (rec.error_message # "None")
                /\ (rec.status = "failed")
                      = (tasks'[id].status \in {"pending", "failed"})
                /\ \A other \in TaskIds \ {id} : tasks'[other] = tasks[other]
                /\ UNCHANGED <<jobs, task_functions, state, hist>>]_vars

\* trigger_task returned True for a task with a registered function whose
\* body raised: the task is failed and the record carries the error
BodyFailureStaysInsideWitness ==
    /\ ret.op = "trigger_task"
    /\ ret.result = "True"
    /\ Exists(ret.id)
    /\ tasks[ret.id].status = "failed"
    /\ \E k \in LogsOf(ret.id) : task_logs[k].error_message = "error"

\* C16: get_task_status and get_all_tasks change nothing of the store;
\* get_task_status returns the row of an existing id and not-found for
\* another; get_all_tasks returns current rows in strictly ascending id
\* order, every task when the status is omitted or empty and exactly the
\* tasks in status s when called with s.
ReadsAreProjections ==
    [][/\ ret'.op = "get_task_status"
          => /\ UNCHANGED store
             /\ Exists(ret'.id) => ret'.result = <<tasks[ret'.id]>>
             /\ ~Exists(ret'.id) => ret'.result = <<>>
       /\ ret'.op = "get_all_tasks"
          => LET res == ret'.result
                 given == ret'.arg
             IN /\ UNCHANGED store
                /\ \A k \in 1..Len(res) :
                      /\ Exists(res[k].id)
                      /\ res[k].row = tasks[res[k].id]
                      /\ k > 1 => res[k - 1].id < res[k].id
                /\ {res[k].id : k \in 1..Len(res)}
                      = IF given \in {<<>>, <<"">>}
                        THEN TaskIds
                        ELSE {id \in TaskIds :
                                 tasks[id].status = given[1]}]_vars

\* get_all_tasks("cancelled") returned one of two tasks, the second
ReadsAreProjectionsWitness ==
    /\ ret.op = "get_all_tasks"
    /\ ret.arg = <<"cancelled">>
    /\ Len(tasks) = 2
    /\ Len(ret.result) = 1
    /\ ret.result[1].id = 2

\* C17: when a run ends, the new row follows from the outcome and the
\* retry_count and max_retries of the row as the run found it: success gives
\* completed with retry_count unchanged; failure gives pending with
\* retry_count + 1 when retry_count < max_retries, and failed with
\* retry_count unchanged otherwise.
OutcomeTransition ==
    [][\A r \in 1..Len(runs) :
          (runs[r].pc = "body" /\ dbtxn' = NoTxn)
          => LET before == tasks[runs[r].task_id]
                 after == tasks'[runs[r].task_id]
                 success ==
                     task_logs'[Len(task_logs')].status = "completed"
             IN /\ after.max_retries = before.max_retries
                /\ success
                   => /\ after.status = "completed"
                      /\ after.retry_count = before.retry_count
                /\ (~success /\ before.retry_count < before.max_retries)
                   => /\ after.status = "pending"
                      /\ after.retry_count = before.retry_count + 1
                /\ (~success /\ before.retry_count >= before.max_retries)
                   => /\ after.status = "failed"
                      /\ after.retry_count = before.retry_count]_vars

\* a scheduled run of a task added with retry_count=0 failed: the task is
\* pending with retry_count = 1
OutcomeTransitionWitness ==
    \E id \in TaskIds :
        /\ hist[id].rc_given
        /\ tasks[id].status = "pending"
        /\ tasks[id].retry_count = 1
        /\ RunsOf(id) = {}
        /\ \E k \in LogsOf(id) : task_logs[k].error_message = "error"

\* C18: every step keeps the records of task_logs as they are, adding
\* records only at the end, and keeps every row of tasks.
LogIsAppendOnly ==
    [][/\ Len(task_logs') >= Len(task_logs)
       /\ SubSeq(task_logs', 1, Len(task_logs)) = task_logs
       /\ Len(tasks') >= Len(tasks)]_vars

\* two runs were recorded, the task was cancelled and the scheduler shut
\* down
LogIsAppendOnlyWitness ==
    /\ Len(task_logs) = 2
    /\ state = "shutdown"
    /\ \E id \in TaskIds : tasks[id].status = "cancelled"

\* this step is the scheduler processing the due job of task id
JobProcessed(id) ==
    /\ state = "running"
    /\ state' = "running"
    /\ HasJob(id)
    /\ \E j \in jobs' : j.id = id /\ j # JobOf(id)

\* C19: when the scheduler processes the due job of a task, whatever the
\* number of fire times that have passed, it starts no execution while a
\* run of the task is in progress and exactly one execution otherwise.
FiringsAreCoalesced ==
    [][\A id \in TaskIds :
          JobProcessed(id)
          => IF RunsOf(id) # {}
             THEN runs' = runs
             ELSE /\ Len(runs') = Len(runs) + 1
                  /\ SubSeq(runs', 1, Len(runs)) = runs
                  /\ runs'[Len(runs')].task_id = id
                  /\ runs'[Len(runs')].src = "sched"]_vars

\* C20: while a run is in its body, get_task_status(id) shows status
\* running and last_run_at equal to the start time of that run.
RunningMarkIsVisible ==
    \A r \in 1..Len(runs) :
        runs[r].pc = "body"
        => /\ GetTaskStatus(runs[r].task_id) # <<>>
           /\ GetTaskStatus(runs[r].task_id)[1].status = "running"
           /\ GetTaskStatus(runs[r].task_id)[1].last_run_at
                 = runs[r].started_at

\* C21: a call of _execute_task is never stopped at its start by the body
\* of another task: it does not end without reaching its body while the
\* only run in its body belongs to a different task.
UnrelatedTasksRunInParallel ==
    [][\A r \in 1..Len(runs) :
          (/\ runs[r].pc = "update"
           /\ runs' = Remove(runs, r))
          => ~\E q \in 1..Len(runs) :
                 /\ runs[q].pc = "body"
                 /\ runs[q].task_id # runs[r].task_id]_vars

\* C22: the row of every task that has a job holds a next_run_at, equal to
\* the next fire time of the job once the scheduler has computed it.
NextRunAtIsMaintained ==
    \A id \in TaskIds :
        HasJob(id)
        => /\ tasks[id].next_run_at # NULL
           /\ JobOf(id).next_run_time # NULL
              => tasks[id].next_run_at = JobOf(id).next_run_time

\* C23: when add_task returns an id for a schedule that parses, without
\* manual-only mode, the job store holds a job for the new task.
TriggerRegisteredForEveryType ==
    [][(/\ ret'.op = "add_task"
        /\ ret'.result = "ok"
        /\ Truthy(hist'[ret'.id].schedule)
        /\ ParseSchedule(hist'[ret'.id].schedule) # NoTrigger
        /\ ~hist'[ret'.id].manual_trigger)
       => \E j \in jobs' : j.id = ret'.id]_vars

\* the task was added without a schedule or in manual-only mode
ManualOnly(id) == ~Truthy(hist[id].schedule) \/ hist[id].manual_trigger

\* C24: a task added without a schedule or in manual-only mode never has a
\* job and is never run by the scheduler; each record of it is appended by
\* a step in which trigger_task returns True for it, one record per return.
ManualOnlyNeverScheduled ==
    [][\A id \in 1..Len(tasks') :
          (~Truthy(hist'[id].schedule) \/ hist'[id].manual_trigger)
          => /\ \A j \in jobs' : j.id # id
             /\ \A r \in 1..Len(runs') :
                   runs'[r].task_id = id => runs'[r].src = "manual"
             /\ LET after == {k \in 1..Len(task_logs') :
                                 task_logs'[k].task_id = id}
                    before == IF id \in TaskIds THEN LogsOf(id) ELSE {}
                IN \/ after = before
                   \/ /\ Cardinality(after) = Cardinality(before) + 1
                      /\ ret' = Event("trigger_task", id, "", "True")]_vars

\* a task added in manual-only mode with an interval schedule for a
\* registered type was run by trigger_task, and a second has passed on the
\* started scheduler since
ManualOnlyNeverScheduledWitness ==
    \E id \in TaskIds :
        /\ hist[id].manual_trigger
        /\ Truthy(hist[id].schedule)
        /\ state = "running"
        /\ LogsOf(id) # {}
        /\ \A k \in LogsOf(id) : task_logs[k].status = "completed"
        /\ now > tasks[id].updated_at

\* C25: _parse_schedule returns a trigger for every string that is five
\* cron fields or "interval" and a positive integer, and no trigger for
\* "interval 0", "interval -5", "interval 5 extra", "interval" and strings
\* of four or six fields; add_task registers a job only for the former.
ParserAcceptsExactlyTheGrammar ==
    /\ ret.op = "_parse_schedule"
       => /\ ret.arg \in GrammarInputs => ret.result # NoTrigger
          /\ ret.arg \in OffGrammarInputs => ret.result = NoTrigger
    /\ \A id \in TaskIds :
          hist[id].schedule \in OffGrammarInputs => ~HasJob(id)

CancelOnlyFromPendingOrRunning ==
    [][/\ \A id \in TaskIds :
             (tasks'[id].status = "cancelled" /\ tasks[id].status # "cancelled")
             => /\ tasks[id].status \in {"pending", "running"}
                /\ ret'.op = "cancel_task"
                /\ ret'.id = id
       /\ (ret'.op = "cancel_task" /\ ~Exists(ret'.id))
          => /\ ret'.result # "True"
             /\ UNCHANGED store]_vars

\* task id is marked running by the call of _execute_task that began at t
MarkedRunning(id, t) ==
    \E r \in 1..Len(runs) :
        /\ runs[r].task_id = id
        /\ runs[r].pc = "body"
        /\ runs[r].started_at = t

\* task id is no longer marked running, its row holds an outcome, and the
\* last record of the task is the one of the attempt that began at t, with
\* that outcome
Finished(id, t) ==
    /\ Exists(id)
    /\ \A r \in RunsOf(id) : runs[r].pc # "body"
    /\ tasks[id].status \in {"completed", "pending", "failed"}
    /\ LogsOf(id) # {}
    /\ LET k == CHOOSE i \in LogsOf(id) : \A j \in LogsOf(id) : j <= i
       IN /\ task_logs[k].started_at = t
          /\ task_logs[k].status = "completed"
             <=> tasks[id].status = "completed"

\* C28: a task marked running eventually has a status among completed,
\* pending and failed and a matching execution record.
RunningEventuallyFinishes ==
    \A id \in 1..MaxTasks, t \in 0..MaxTime :
        MarkedRunning(id, t) ~> Finished(id, t)

RunningEventuallyFinishesWitness ==
    \E id \in TaskIds :
        /\ Finished(id, 0)
        /\ tasks[id].status = "pending"
        /\ tasks[id].retry_count = 1

\* C29: no step lowers the retry_count of a task or changes its
\* max_retries; a successful run leaves retry_count as it was.
RetryCountNeverDecreases ==
    [][\A id \in TaskIds :
          /\ tasks'[id].retry_count >= tasks[id].retry_count
          /\ tasks'[id].max_retries = tasks[id].max_retries
          /\ tasks'[id].status = "completed"
             => tasks'[id].retry_count = tasks[id].retry_count]_vars

RetryCountNeverDecreasesWitness ==
    \E id \in TaskIds :
        /\ tasks[id].status = "completed"
        /\ tasks[id].retry_count = 1
        /\ Cardinality(LogsOf(id)) = 2

\* C30: a call of _execute_task made by the scheduler exists only while
\* the scheduler is started, and trigger_task enters _execute_task for a
\* task it does not refuse in every state of the scheduler.
ScheduledRunsOnlyWhileStarted ==
    [][/\ \A r \in 1..Len(runs') :
             runs'[r].src = "sched" => state' = "running"
       /\ \A id \in TaskIds :
             (ret'.op = "trigger_task" /\ ret'.id = id
              /\ ret'.result = "False" /\ UNCHANGED store)
             => NotTriggerable(tasks[id].status)]_vars

\* the job of a task is due, the scheduler was never started, nothing ran
\* by schedule, and trigger_task is inside the body
ScheduledRunsOnlyWhileStartedWitness ==
    \E id \in TaskIds :
        /\ state = "stopped"
        /\ HasJob(id)
        /\ JobOf(id).start_date <= now
        /\ \E r \in RunsOf(id) : runs[r].src = "manual" /\ runs[r].pc = "body"

====
